---- MODULE Spec2Model ----
(***************************************************************************)
(* Execution progress tracker of the "Implement Code" page                 *)
(* (src/unnamed/part_007, second ImplementCodePage, lines 523-1453).       *)
(*                                                                         *)
(* The React state of the page is one TLA+ variable per useState cell.     *)
(* Every handler of the page is an operator from a page state (a record    *)
(* of the cells) to the page state it leaves; an action applies one        *)
(* handler to the current state.  The browser's side (EventSource objects, *)
(* in-flight POST requests) is kept in `sources', `fetches', `runFetch'.   *)
(* History variables (attempts, fallbackCalls, attemptStory, startsSeen,   *)
(* completes, frames, rejected) only observe; no handler reads them.       *)
(* currentTaskId (the "Working..." marker of a task row) is left out.      *)
(***************************************************************************)
EXTENDS Integers, Sequences, FiniteSets, TLC

VARIABLES
    busy,               \* useState(false), line 647
    streaming,          \* useState(false), line 653
    es,                 \* useState<EventSource|null>, line 657: 0 is null, else an index of sources
    lastResult,         \* useState<ImplementResult|null>, line 649
    log,                \* useState<string[]>, line 648: number of lines of each kind
    workingStoryTitle,  \* line 650
    toolCountsByTask,   \* line 655
    latestToolByTask,   \* line 656
    progressByStory,    \* line 665
    selectedStoryId,    \* line 662
    sources,            \* the EventSource objects not yet dropped: story of the closure, readyState
    fetches,            \* in-flight POST .../implement requests (story of each doPostFallback closure)
    runFetch,           \* an in-flight POST .../execute request
    attempts,           \* history: implementStoryById invocations so far
    fallbackCalls,      \* history: POST .../implement requests issued by the latest attempt
    attemptStory,       \* history: the storyId argument of the latest implementStoryById
    startsSeen,         \* history: on_tool_start frames delivered per task during the latest attempt
    completes,          \* history: task_complete frames delivered during the latest attempt, by ok
    frames,             \* history: frames other than story_end delivered so far
    rejected            \* history: the last step was a click on the disabled Implement button

vars == <<busy, streaming, es, lastResult, log, workingStoryTitle,
          toolCountsByTask, latestToolByTask, progressByStory, selectedStoryId,
          sources, fetches, runFetch, attempts, fallbackCalls, attemptStory, startsSeen,
          completes, frames, rejected>>

----------------------------------------------------------------------------
(* Bounds of the model *)

MaxAttempts == 2    \* implementStoryById invocations explored
MaxFrames == 2      \* frames other than story_end delivered over all attempts

----------------------------------------------------------------------------
(* The plan bundle of the selected run: two stories, three tasks *)

Stories == {"s1", "s2"}

AllTasks == {"t1", "t2", "t3"}

\* tasksByStory (lines 776-786): the tasks of a story, sorted by order
tasksByStory(storyId) ==
    IF storyId = "s1" THEN <<"t1", "t2">>
    ELSE IF storyId = "s2" THEN <<"t3">>
    ELSE <<>>

Tools == {"grep", "edit"}

SeqToSet(q) == {q[i] : i \in 1..Len(q)}

Max(a, b) == IF a >= b THEN a ELSE b

----------------------------------------------------------------------------
(* Values *)

\* lastResult === null
NullResult == [present |-> FALSE, hasResults |-> FALSE, results |-> <<>>]

\* An ImplementResult (lines 564-576) with a results array
ResultOf(rs) == [present |-> TRUE, hasResults |-> TRUE, results |-> rs]

\* A JSON body without a results array (for instance an error body)
NoResultsBody == [present |-> TRUE, hasResults |-> FALSE, results |-> <<>>]

\* One entry of ImplementResult.results: error is "" when the field is absent
Entry(t, ok, err, evs) == [task_id |-> t, ok |-> ok, error |-> err, events |-> evs]

Ev(kind, name) == [event |-> kind, name |-> name]

\* progressByStory[storyId] === undefined
Absent == [present |-> FALSE, total |-> 0, ok |-> 0, errors |-> 0]

Progress(total, ok, errors) == [present |-> TRUE, total |-> total, ok |-> ok, errors |-> errors]

LogKinds == {"implementing", "tool", "tool_done", "task", "story_begin", "finished",
             "event", "bad", "sse_failed", "done", "error", "exec_run", "run_received"}

EmptyLog == [k \in LogKinds |-> 0]

RECURSIVE SumOver(_, _)
SumOver(f, S) ==
    IF S = {} THEN 0
    ELSE LET x == CHOOSE y \in S : TRUE IN f[x] + SumOver(f, S \ {x})

LogLen(l) == SumOver(l, LogKinds)

\* The page state as one record
State ==
    [busy |-> busy, streaming |-> streaming, es |-> es, lastResult |-> lastResult,
     log |-> log, workingStoryTitle |-> workingStoryTitle,
     toolCountsByTask |-> toolCountsByTask, latestToolByTask |-> latestToolByTask,
     progressByStory |-> progressByStory, selectedStoryId |-> selectedStoryId,
     sources |-> sources, fetches |-> fetches, runFetch |-> runFetch]

\* The handler's state becomes the page state
Becomes(s) ==
    /\ busy' = s.busy
    /\ streaming' = s.streaming
    /\ es' = s.es
    /\ lastResult' = s.lastResult
    /\ log' = s.log
    /\ workingStoryTitle' = s.workingStoryTitle
    /\ toolCountsByTask' = s.toolCountsByTask
    /\ latestToolByTask' = s.latestToolByTask
    /\ progressByStory' = s.progressByStory
    /\ selectedStoryId' = s.selectedStoryId
    /\ sources' = s.sources
    /\ fetches' = s.fetches
    /\ runFetch' = s.runFetch

----------------------------------------------------------------------------
(* Handlers of the page, as functions of the page state *)

\* appendLog (lines 846-848): one more line of this kind
appendLog(s, kind) == [s EXCEPT !.log[kind] = @ + 1]

\* bumpToolCount storing 1 instead of the previous count plus one
bumpToolCount_Overwrite(s, taskId, toolName) ==
    IF taskId = "" THEN s
    ELSE LET s1 == [s EXCEPT !.toolCountsByTask[taskId] = 1]
         IN  IF toolName # "" THEN [s1 EXCEPT !.latestToolByTask[taskId] = toolName] ELSE s1

\* bumpToolCount without its guard: an empty task id gets an entry of its own
bumpToolCount_NoGuard(s, taskId, toolName) ==
    LET ids == DOMAIN s.toolCountsByTask \cup {taskId}
        counts == [t \in ids |-> (IF t \in DOMAIN s.toolCountsByTask
                                  THEN s.toolCountsByTask[t] ELSE 0)
                                 + (IF t = taskId THEN 1 ELSE 0)]
        s1 == [s EXCEPT !.toolCountsByTask = counts]
    IN  IF toolName # "" /\ taskId \in DOMAIN s.latestToolByTask
        THEN [s1 EXCEPT !.latestToolByTask[taskId] = toolName] ELSE s1

\* bumpToolCount (lines 850-854)
bumpToolCount(s, taskId, toolName) ==
    IF taskId = "" THEN s
    ELSE LET s1 == [s EXCEPT !.toolCountsByTask[taskId] = @ + 1]
         IN  IF toolName # "" THEN [s1 EXCEPT !.latestToolByTask[taskId] = toolName] ELSE s1

\* prev[storyId] ?? { total: tasksByStory.get(storyId)?.length ?? 0, ok: 0, errors: 0 }
\* (lines 860 and 1022-1023)
progressOrDefault(prog, storyId) ==
    IF prog[storyId].present THEN prog[storyId]
    ELSE Progress(Len(tasksByStory(storyId)), 0, 0)

\* markTaskFinished counting every completed task as ok
markTaskFinished_AlwaysOk(s, storyId, ok) ==
    IF storyId = "" THEN s
    ELSE LET cur == progressOrDefault(s.progressByStory, storyId)
         IN  [s EXCEPT !.progressByStory[storyId] = Progress(cur.total, cur.ok + 1, cur.errors)]

\* markTaskFinished also emptying the tool counts
markTaskFinished_ClearsToolCounts(s, storyId, ok) ==
    IF storyId = "" THEN s
    ELSE LET cur == progressOrDefault(s.progressByStory, storyId)
         IN  [s EXCEPT !.progressByStory[storyId] =
                           Progress(cur.total,
                                    cur.ok + (IF ok THEN 1 ELSE 0),
                                    cur.errors + (IF ok THEN 0 ELSE 1)),
                       !.toolCountsByTask = [t \in AllTasks |-> 0]]

\* markTaskFinished (lines 857-870)
markTaskFinished(s, storyId, ok) ==
    IF storyId = "" THEN s
    ELSE LET cur == progressOrDefault(s.progressByStory, storyId)
         IN  [s EXCEPT !.progressByStory[storyId] =
                 Progress(cur.total,
                          cur.ok + (IF ok THEN 1 ELSE 0),
                          cur.errors + (IF ok THEN 0 ELSE 1))]

\* A sequence without its i-th element
RemoveAt(q, i) == SubSeq(q, 1, i - 1) \o SubSeq(q, i + 1, Len(q))

\* close() of an already closed source ending the attempt a second time
closeSource_ClosedClearsBusy(s, id) ==
    IF s.sources[id].open THEN [s EXCEPT !.sources[id] = [storyId |-> "", open |-> FALSE]]
    ELSE [s EXCEPT !.busy = FALSE, !.streaming = FALSE]

\* EventSource.close(): readyState becomes CLOSED; closing a closed source changes
\* nothing.  No handler of a closed source runs again, so the story of its
\* closures is forgotten with it.
closeSource(s, id) == [s EXCEPT !.sources[id] = [storyId |-> "", open |-> FALSE]]

\* The POST .../implement request of doPostFallback (lines 959-962) goes out
issueFallback(s, storyId) == [s EXCEPT !.fetches = Append(@, storyId)]

\* tryStreamStory (lines 874-943) up to its return; throws: new EventSource(url) threw
tryStreamStory(s, storyId, throws) ==
    LET s1 == IF s.es # 0 THEN [closeSource(s, s.es) EXCEPT !.es = 0] ELSE s
    IN  IF throws THEN s1
        ELSE [s1 EXCEPT !.sources = Append(@, [storyId |-> storyId, open |-> TRUE]),
                        !.es = Len(s1.sources) + 1,
                        !.streaming = TRUE,
                        !.toolCountsByTask = [t \in AllTasks |-> 0],
                        !.latestToolByTask = [t \in AllTasks |-> ""]]

\* The cleanup of the [es] effect (lines 683-690) when a handler that started in
\* state prev leaves state s with another es: the previous source is closed once
\* more, and as the page holds no reference to it any longer it leaves the
\* collection of sources.
esCleanup(prev, s) ==
    IF prev.es # 0 /\ s.es # prev.es
    THEN [closeSource(s, prev.es) EXCEPT !.sources = RemoveAt(@, prev.es),
                                         !.es = IF @ > prev.es THEN @ - 1 ELSE @]
    ELSE s

\* implementStoryById sending the fallback request whether or not the stream opened
implementStoryById_AlwaysFallsBack(s, storyId, throws) ==
    LET s0 == [s EXCEPT !.busy = TRUE,
                        !.workingStoryTitle = storyId,
                        !.lastResult = NullResult,
                        !.log = [EmptyLog EXCEPT !["implementing"] = 1]]
        s1 == tryStreamStory(s0, storyId, throws)
    IN  issueFallback(s1, storyId)

\* implementStoryById (lines 946-992) up to its first suspension: the stream is
\* open (sseStarted), or the fallback request has been sent
implementStoryById(s, storyId, throws) ==
    LET s0 == [s EXCEPT !.busy = TRUE,
                        !.workingStoryTitle = storyId,
                        !.lastResult = NullResult,
                        !.log = [EmptyLog EXCEPT !["implementing"] = 1]]
        s1 == tryStreamStory(s0, storyId, throws)
    IN  IF throws THEN issueFallback(s1, storyId) ELSE s1

\* A frame of the stream, after JSON.parse; event "bad" stands for a frame that
\* does not parse, "other" for any other truthy tag
Frame(event, taskId, name, ok, result) ==
    [event |-> event, task_id |-> taskId, name |-> name, ok |-> ok, result |-> result]

\* onmessage whose catch closes the source and ends the streaming
onmessage_BadFrameCloses(s, id, evt) ==
    LET storyId == s.sources[id].storyId
    IN  IF evt.event = "bad" THEN
            [closeSource(appendLog(s, "bad"), id) EXCEPT !.streaming = FALSE]
        ELSE IF evt.event = "on_tool_start" THEN
            appendLog(bumpToolCount(s, evt.task_id, evt.name), "tool")
        ELSE IF evt.event = "on_tool_end" THEN appendLog(s, "tool_done")
        ELSE IF evt.event = "task_complete" THEN
            appendLog(markTaskFinished(s, storyId, evt.ok), "task")
        ELSE IF evt.event = "story_begin" THEN appendLog(s, "story_begin")
        ELSE IF evt.event = "story_end" THEN
            LET s1 == IF evt.result.present THEN [s EXCEPT !.lastResult = evt.result] ELSE s
                s2 == closeSource(appendLog(s1, "finished"), id)
            IN  [s2 EXCEPT !.streaming = FALSE, !.busy = FALSE, !.workingStoryTitle = ""]
        ELSE appendLog(s, "event")

\* onmessage giving the stream up at the first frame that is not a known event
onmessage_OtherEndsStream(s, id, evt) ==
    LET storyId == s.sources[id].storyId
    IN  IF evt.event = "bad" THEN appendLog(s, "bad")
        ELSE IF evt.event = "on_tool_start" THEN
            appendLog(bumpToolCount(s, evt.task_id, evt.name), "tool")
        ELSE IF evt.event = "on_tool_end" THEN appendLog(s, "tool_done")
        ELSE IF evt.event = "task_complete" THEN
            appendLog(markTaskFinished(s, storyId, evt.ok), "task")
        ELSE IF evt.event = "story_begin" THEN appendLog(s, "story_begin")
        ELSE IF evt.event = "story_end" THEN
            LET s1 == IF evt.result.present THEN [s EXCEPT !.lastResult = evt.result] ELSE s
                s2 == closeSource(appendLog(s1, "finished"), id)
            IN  [s2 EXCEPT !.streaming = FALSE, !.busy = FALSE, !.workingStoryTitle = ""]
        ELSE [closeSource(appendLog(s, "event"), id)
                 EXCEPT !.streaming = FALSE, !.busy = FALSE, !.workingStoryTitle = ""]

\* onmessage whose story_end branch leaves the source open
onmessage_StoryEndKeepsOpen(s, id, evt) ==
    LET storyId == s.sources[id].storyId
    IN  IF evt.event = "bad" THEN appendLog(s, "bad")
        ELSE IF evt.event = "on_tool_start" THEN
            appendLog(bumpToolCount(s, evt.task_id, evt.name), "tool")
        ELSE IF evt.event = "on_tool_end" THEN appendLog(s, "tool_done")
        ELSE IF evt.event = "task_complete" THEN
            appendLog(markTaskFinished(s, storyId, evt.ok), "task")
        ELSE IF evt.event = "story_begin" THEN appendLog(s, "story_begin")
        ELSE IF evt.event = "story_end" THEN
            LET s1 == IF evt.result.present THEN [s EXCEPT !.lastResult = evt.result] ELSE s
                s2 == appendLog(s1, "finished")
            IN  [s2 EXCEPT !.streaming = FALSE, !.busy = FALSE, !.workingStoryTitle = ""]
        ELSE appendLog(s, "event")

\* source.onmessage of the stream of source id (lines 898-929)
onmessage(s, id, evt) ==
    LET storyId == s.sources[id].storyId
    IN  IF evt.event = "bad" THEN appendLog(s, "bad")
        ELSE IF evt.event = "on_tool_start" THEN
            appendLog(bumpToolCount(s, evt.task_id, evt.name), "tool")
        ELSE IF evt.event = "on_tool_end" THEN appendLog(s, "tool_done")
        ELSE IF evt.event = "task_complete" THEN
            appendLog(markTaskFinished(s, storyId, evt.ok), "task")
        ELSE IF evt.event = "story_begin" THEN appendLog(s, "story_begin")
        ELSE IF evt.event = "story_end" THEN
            LET s1 == IF evt.result.present THEN [s EXCEPT !.lastResult = evt.result] ELSE s
                s2 == closeSource(appendLog(s1, "finished"), id)
            IN  [s2 EXCEPT !.streaming = FALSE, !.busy = FALSE, !.workingStoryTitle = ""]
        ELSE appendLog(s, "event")

\* onerror without source.close()
onerror_NoClose(s, id) ==
    issueFallback([appendLog(s, "sse_failed") EXCEPT !.streaming = FALSE], s.sources[id].storyId)

\* onerror ending the attempt with an error instead of handing off to the fallback
onerror_EndsInError(s, id) ==
    LET s1 == closeSource(appendLog(appendLog(s, "sse_failed"), "error"), id)
    IN  [s1 EXCEPT !.streaming = FALSE, !.busy = FALSE, !.workingStoryTitle = ""]

\* onerror emptying the per-task diagnostics before the fallback
onerror_ResetsDiagnostics(s, id) ==
    LET s1 == closeSource(appendLog(s, "sse_failed"), id)
    IN  issueFallback([s1 EXCEPT !.streaming = FALSE,
                                 !.toolCountsByTask = [t \in AllTasks |-> 0],
                                 !.latestToolByTask = [t \in AllTasks |-> ""]],
                      s.sources[id].storyId)

\* onerror clearing busy before the fallback has concluded
onerror_ClearsBusy(s, id) ==
    LET s1 == closeSource(appendLog(s, "sse_failed"), id)
    IN  issueFallback([s1 EXCEPT !.streaming = FALSE, !.busy = FALSE], s.sources[id].storyId)

\* source.onerror of the stream of source id (lines 931-937), up to the fallback's request
onerror(s, id) ==
    LET s1 == closeSource(appendLog(s, "sse_failed"), id)
    IN  issueFallback([s1 EXCEPT !.streaming = FALSE], s.sources[id].storyId)

\* The counts with ok taken from the ok flag and errors from the error field
batchCounts_OkByFlag(data) ==
    Progress(Len(data.results),
             Len(SelectSeq(data.results, LAMBDA r : r.ok)),
             Len(SelectSeq(data.results, LAMBDA r : r.error # "")))

\* The counts doPostFallback derives from the response (lines 966-968)
batchCounts(data) ==
    Progress(Len(data.results),
             Len(SelectSeq(data.results, LAMBDA r : r.error = "")),
             Len(SelectSeq(data.results, LAMBDA r : r.error # "")))

\* doPostFallback (lines 957-982) from the response on, when res.json() gave data
doPostFallback(s, storyId, data) ==
    LET c == batchCounts(data)
        s1 == [s EXCEPT !.lastResult = data, !.progressByStory[storyId] = c]
    IN  [appendLog(s1, "done") EXCEPT !.busy = FALSE, !.workingStoryTitle = ""]

\* doPostFallback without its finally block
doPostFallbackFailed_NoFinally(s) == appendLog(s, "error")

\* doPostFallback's catch also emptying the progress records
doPostFallbackFailed_DropsProgress(s) ==
    [appendLog(s, "error") EXCEPT !.busy = FALSE, !.workingStoryTitle = "",
                                  !.progressByStory = [st \in Stories |-> Absent]]

\* doPostFallback when fetch or res.json() threw (lines 976-981)
doPostFallbackFailed(s) ==
    [appendLog(s, "error") EXCEPT !.busy = FALSE, !.workingStoryTitle = ""]

\* executeWholeRun (lines 995-1014) up to its request
executeWholeRun(s) ==
    [s EXCEPT !.busy = TRUE,
              !.lastResult = NullResult,
              !.log = [EmptyLog EXCEPT !["exec_run"] = 1],
              !.runFetch = TRUE]

\* executeWholeRun from the response on (lines 1006-1013)
executeWholeRunDone(s, data) ==
    [appendLog([s EXCEPT !.lastResult = data], "run_received")
        EXCEPT !.busy = FALSE, !.runFetch = FALSE]

\* executeWholeRun when the request failed (lines 1009-1013)
executeWholeRunFailed(s) ==
    [appendLog(s, "error") EXCEPT !.busy = FALSE, !.runFetch = FALSE]

\* The Implement buttons disabled only while the stream is open
implementDisabled_StreamingOnly(s) == s.streaming

\* disabled={!selectedRunId || busy} of both Implement buttons (lines 1187, 1353);
\* a run is selected
implementDisabled(s) == s.busy

\* Execute Plan never disabled
executeDisabled_Never(s) == FALSE

\* disabled={!selectedRunId || busy} of Execute Plan (line 1086)
executeDisabled(s) == s.busy

\* summarizeTaskDiagnostics (lines 1029-1049): tool calls and latest tool of one result
summarizeTaskDiagnostics(taskResult) ==
    LET toolStarts == SelectSeq(taskResult.events, LAMBDA e : e.event = "on_tool_start")
        toolEnds == SelectSeq(taskResult.events, LAMBDA e : e.event = "on_tool_end")
        lastEndName == IF toolEnds = <<>> THEN "" ELSE toolEnds[Len(toolEnds)].name
        lastStartName == IF toolStarts = <<>> THEN "" ELSE toolStarts[Len(toolStarts)].name
    IN  [totalToolCalls |-> Max(Len(toolStarts), Len(toolEnds)),
         latestName |-> IF lastEndName # "" THEN lastEndName ELSE lastStartName]

\* The task row merging the live values whether or not the stream is on
taskRowDiag_MergesAlways(s, task) ==
    LET found == SelectSeq(s.lastResult.results, LAMBDA r : r.task_id = task)
        diag == IF found # <<>> THEN summarizeTaskDiagnostics(found[1])
                ELSE [totalToolCalls |-> 0, latestName |-> ""]
        liveCalls == s.toolCountsByTask[task]
        liveLatest == s.latestToolByTask[task]
    IN  IF liveCalls > 0 \/ liveLatest # ""
        THEN [totalToolCalls |-> Max(diag.totalToolCalls, liveCalls),
              latestName |-> IF liveLatest # "" THEN liveLatest ELSE diag.latestName]
        ELSE diag

\* The Tool Calls / Latest Tool cells of a task row (lines 1373-1385)
taskRowDiag(s, task) ==
    LET found == SelectSeq(s.lastResult.results, LAMBDA r : r.task_id = task)
        diag == IF found # <<>> THEN summarizeTaskDiagnostics(found[1])
                ELSE [totalToolCalls |-> 0, latestName |-> ""]
        liveCalls == s.toolCountsByTask[task]
        liveLatest == s.latestToolByTask[task]
    IN  IF s.streaming /\ (liveCalls > 0 \/ liveLatest # "")
        THEN [totalToolCalls |-> Max(diag.totalToolCalls, liveCalls),
              latestName |-> IF liveLatest # "" THEN liveLatest ELSE diag.latestName]
        ELSE diag

----------------------------------------------------------------------------
(* What the server may send *)

\* Recorded events of a task result: one tool end; none; two starts and one end
EvEnd == <<Ev("on_tool_end", "grep")>>

EvMixed == <<Ev("on_tool_start", "grep"), Ev("on_tool_end", "grep"), Ev("on_tool_start", "edit")>>

\* The result arrays the server may return for a story: a result for the first
\* task only, a result per task with a failed task that carries no error text,
\* and one with a failed task that carries one
ResultArrays(storyId) ==
    IF storyId = "s1"
    THEN { <<Entry("t1", TRUE, "", EvEnd)>>,
           <<Entry("t1", TRUE, "", <<>>), Entry("t2", FALSE, "", <<>>)>>,
           <<Entry("t1", FALSE, "boom", EvMixed), Entry("t2", TRUE, "", EvEnd)>> }
    ELSE { <<Entry("t3", TRUE, "", EvEnd)>>,
           <<Entry("t3", FALSE, "", <<>>)>>,
           <<Entry("t3", FALSE, "boom", EvMixed)>> }

\* The batch results of a story
BatchResults(storyId) == {ResultOf(rs) : rs \in ResultArrays(storyId)}

\* The ExecutionEvent frames of a story's stream other than story_end
Frames(storyId) ==
    LET ts == SeqToSet(tasksByStory(storyId)) \cup {""}
    IN  {Frame("on_tool_start", t, n, FALSE, NullResult) : t \in ts, n \in Tools \cup {""}}
        \cup {Frame("on_tool_end", t, n, FALSE, NullResult) : t \in ts, n \in Tools}
        \cup {Frame("task_complete", t, "", ok, NullResult) : t \in ts \ {""}, ok \in BOOLEAN}
        \cup {Frame(e, "", "", FALSE, NullResult) : e \in {"story_begin", "other", "bad"}}

----------------------------------------------------------------------------
(* Initial state and actions *)

Init ==
    /\ busy = FALSE
    /\ streaming = FALSE
    /\ es = 0
    /\ lastResult = NullResult
    /\ log = EmptyLog
    /\ workingStoryTitle = ""
    /\ toolCountsByTask = [t \in AllTasks |-> 0]
    /\ latestToolByTask = [t \in AllTasks |-> ""]
    /\ progressByStory = [s \in Stories |-> Absent]
    /\ selectedStoryId = ""
    /\ sources = <<>>
    /\ fetches = <<>>
    /\ runFetch = FALSE
    /\ attempts = 0
    /\ fallbackCalls = 0
    /\ attemptStory = ""
    /\ startsSeen = [t \in AllTasks |-> 0]
    /\ completes = [ok |-> 0, errors |-> 0]
    /\ frames = 0
    /\ rejected = FALSE

\* The story <select> and the story chips (lines 1170, 1276, 1330)
SelectStory(sid) ==
    /\ sid # selectedStoryId
    /\ selectedStoryId' = sid
    /\ UNCHANGED <<busy, streaming, es, lastResult, log, workingStoryTitle,
                   toolCountsByTask, latestToolByTask, progressByStory, sources, fetches,
                   runFetch, attempts, fallbackCalls, attemptStory, startsSeen, completes,
                   frames>>
    /\ rejected' = FALSE

\* A click on an enabled Implement Selected Story button
Implement(throws) ==
    /\ selectedStoryId # ""
    /\ ~implementDisabled(State)
    /\ attempts < MaxAttempts
    /\ LET s == implementStoryById(State, selectedStoryId, throws)
       IN  /\ Becomes(esCleanup(State, s))
           /\ fallbackCalls' = Len(s.fetches) - Len(fetches)
    /\ attempts' = attempts + 1
    /\ attemptStory' = selectedStoryId
    /\ startsSeen' = [t \in AllTasks |-> 0]
    /\ completes' = [ok |-> 0, errors |-> 0]
    /\ rejected' = FALSE
    /\ UNCHANGED frames

\* The click finds the EventSource constructed
ImplementStream == Implement(FALSE)

\* The click finds new EventSource(url) throwing
ImplementNoStream == Implement(TRUE)

\* A click on the Implement button while it is disabled: no handler runs
ImplementWhileDisabled ==
    /\ selectedStoryId # ""
    /\ implementDisabled(State)
    /\ ~rejected
    /\ rejected' = TRUE
    /\ UNCHANGED <<busy, streaming, es, lastResult, log, workingStoryTitle,
                   toolCountsByTask, latestToolByTask, progressByStory, selectedStoryId,
                   sources, fetches, runFetch, attempts, fallbackCalls, attemptStory,
                   startsSeen, completes, frames>>

\* An open source delivers a frame other than story_end.  The feed completes a
\* task at most once (section 5 of the design: no duplicate task_complete).
StreamFrame(id, evt) ==
    /\ sources[id].open
    /\ frames < MaxFrames
    /\ frames' = frames + 1
    /\ evt.event = "task_complete" => log["task"] < Len(tasksByStory(sources[id].storyId))
    /\ Becomes(onmessage(State, id, evt))
    /\ startsSeen' = IF evt.event = "on_tool_start" /\ evt.task_id # ""
                     THEN [startsSeen EXCEPT ![evt.task_id] = @ + 1]
                     ELSE startsSeen
    /\ completes' = IF evt.event # "task_complete" THEN completes
                    ELSE IF evt.ok THEN [completes EXCEPT !.ok = @ + 1]
                    ELSE [completes EXCEPT !.errors = @ + 1]
    /\ rejected' = FALSE
    /\ UNCHANGED <<attempts, fallbackCalls, attemptStory>>

\* An open source delivers story_end, with or without a result
StreamStoryEnd(id, result) ==
    /\ sources[id].open
    /\ Becomes(onmessage(State, id, Frame("story_end", "", "", FALSE, result)))
    /\ rejected' = FALSE
    /\ UNCHANGED <<attempts, fallbackCalls, attemptStory, startsSeen, completes, frames>>

\* An open source signals an error
StreamError(id) ==
    /\ sources[id].open
    /\ LET s == onerror(State, id)
       IN  /\ Becomes(s)
           /\ fallbackCalls' = fallbackCalls + (Len(s.fetches) - Len(fetches))
    /\ rejected' = FALSE
    /\ UNCHANGED <<attempts, attemptStory, startsSeen, completes, frames>>

\* The i-th in-flight fallback request is answered with a JSON body
FallbackResponse(i, data) ==
    /\ Becomes(doPostFallback([State EXCEPT !.fetches = RemoveAt(@, i)], fetches[i], data))
    /\ rejected' = FALSE
    /\ UNCHANGED <<attempts, fallbackCalls, attemptStory, startsSeen, completes, frames>>

\* The i-th in-flight fallback request fails, or its body is not JSON
FallbackFailure(i) ==
    /\ Becomes(doPostFallbackFailed([State EXCEPT !.fetches = RemoveAt(@, i)]))
    /\ rejected' = FALSE
    /\ UNCHANGED <<attempts, fallbackCalls, attemptStory, startsSeen, completes, frames>>

\* A click on an enabled Execute Plan button
ExecutePlan ==
    /\ ~executeDisabled(State)
    /\ Becomes(executeWholeRun(State))
    /\ rejected' = FALSE
    /\ UNCHANGED <<attempts, fallbackCalls, attemptStory, startsSeen, completes, frames>>

\* The whole-run request is answered
ExecutePlanResponse ==
    /\ runFetch
    /\ Becomes(executeWholeRunDone(State, NoResultsBody))
    /\ rejected' = FALSE
    /\ UNCHANGED <<attempts, fallbackCalls, attemptStory, startsSeen, completes, frames>>

\* The whole-run request fails
ExecutePlanFailure ==
    /\ runFetch
    /\ Becomes(executeWholeRunFailed(State))
    /\ rejected' = FALSE
    /\ UNCHANGED <<attempts, fallbackCalls, attemptStory, startsSeen, completes, frames>>

Next ==
    \/ \E sid \in Stories : SelectStory(sid)
    \/ ImplementStream
    \/ ImplementNoStream
    \/ ImplementWhileDisabled
    \/ \E id \in DOMAIN sources : \E evt \in Frames(sources[id].storyId) : StreamFrame(id, evt)
    \/ \E id \in DOMAIN sources :
           \E r \in BatchResults(sources[id].storyId) \cup {NullResult} : StreamStoryEnd(id, r)
    \/ \E id \in DOMAIN sources : StreamError(id)
    \/ \E i \in DOMAIN fetches :
           \E data \in BatchResults(fetches[i]) \cup {NoResultsBody} : FallbackResponse(i, data)
    \/ \E i \in DOMAIN fetches : FallbackFailure(i)
    \/ ExecutePlan
    \/ ExecutePlanResponse
    \/ ExecutePlanFailure

Spec == Init /\ [][Next]_vars

----------------------------------------------------------------------------
(* Claims *)

\* The progress record the page shows and markTaskFinished continues from
Ledger(storyId) == progressOrDefault(progressByStory, storyId)

OpenSources == {id \in DOMAIN sources : sources[id].open}

\* C1: for every story, after every applied event and across any sequence of
\* attempts, the story's progress record satisfies ok + errors <= total.
C1_OkPlusErrorsWithinTotal ==
    \A st \in Stories : Ledger(st).ok + Ledger(st).errors <= Ledger(st).total

\* C2: while the latest attempt is one whose stream was opened, every task's
\* call count equals the number of on_tool_start frames delivered for that task
\* during the attempt; on_tool_end frames add nothing.
C2_CallCountEqualsToolStarts ==
    es # 0 => \A t \in AllTasks : toolCountsByTask[t] = startsSeen[t]

\* C2 witness: a task with one start and one end delivered shows a count of one
C2_Witness ==
    /\ streaming
    /\ \E t \in AllTasks : toolCountsByTask[t] = 1 /\ startsSeen[t] = 1
    /\ log["tool_done"] = 1

\* C5: during one attempt the fallback request is issued at most once and the
\* error handler hands off at most once, whether the stream failed to open or
\* errored after opening.
C5_FallbackAtMostOnce == fallbackCalls <= 1 /\ log["sse_failed"] <= 1

\* C5 witness: the stream opened, errored, and the one fallback request is in flight
C5_Witness == es # 0 /\ log["sse_failed"] = 1 /\ fallbackCalls = 1 /\ Len(fetches) = 1

\* C6: while an attempt is streaming or falling back the Implement button is
\* disabled, so no step starts another attempt or opens another subscription,
\* and a click on the button changes nothing on the page.
C6_BusyRejectsSecondRequest ==
    [][(streaming \/ fetches # <<>>) =>
          /\ implementDisabled(State)
          /\ attempts' = attempts
          /\ \A id \in DOMAIN sources' :
                 sources'[id].open => id \in DOMAIN sources /\ sources[id] = sources'[id]
          /\ rejected' => (State' = State /\ fallbackCalls' = fallbackCalls)]_vars

\* C6 witness: the button was clicked while the attempt was streaming
C6_Witness == rejected /\ streaming /\ OpenSources # {}

\* The batch-derived diagnostics of a task: those of its entry in lastResult, if any
BatchDiag(task) ==
    LET found == SelectSeq(lastResult.results, LAMBDA r : r.task_id = task)
    IN  IF found # <<>> THEN summarizeTaskDiagnostics(found[1])
        ELSE [totalToolCalls |-> 0, latestName |-> ""]

\* The counts of a batch result by the ok flag of its entries
CountsByOkFlag(data) ==
    Progress(Len(data.results),
             Len(SelectSeq(data.results, LAMBDA r : r.ok)),
             Len(SelectSeq(data.results, LAMBDA r : ~r.ok)))

\* C3: once a batch result (from story_end or from the fallback) has landed for
\* the attempt's story, every task with an entry in the result and with live
\* diagnostics from the attempt's stream shows call count max(live, batch) and
\* the live tool name if there is one, else the batch one.
C3_MergedCallCountIsMax ==
    (/\ lastResult.hasResults
     /\ log["finished"] = 1 \/ log["done"] = 1
     /\ es # 0
     /\ selectedStoryId = attemptStory)
    => \A t \in SeqToSet(tasksByStory(attemptStory)) :
           (/\ \E i \in DOMAIN lastResult.results : lastResult.results[i].task_id = t
            /\ toolCountsByTask[t] > 0 \/ latestToolByTask[t] # "") =>
               /\ taskRowDiag(State, t).totalToolCalls =
                      Max(toolCountsByTask[t], BatchDiag(t).totalToolCalls)
               /\ taskRowDiag(State, t).latestName =
                      IF latestToolByTask[t] # "" THEN latestToolByTask[t]
                      ELSE BatchDiag(t).latestName

\* C4: from any state in which an attempt can start, and for any batch result,
\* "stream never opens, then fallback" and "stream opens, errors at once, then
\* fallback" leave the same ledger and the same per-task diagnostics.
C4_FallbackPathsAgree ==
    (selectedStoryId # "" /\ ~implementDisabled(State)) =>
        \A data \in BatchResults(selectedStoryId) :
            LET sid == selectedStoryId
                a0 == implementStoryById(State, sid, TRUE)
                a  == doPostFallback([a0 EXCEPT !.fetches = <<>>], sid, data)
                b0 == implementStoryById(State, sid, FALSE)
                b1 == onerror(b0, b0.es)
                b  == doPostFallback([b1 EXCEPT !.fetches = <<>>], sid, data)
            IN  /\ a.progressByStory = b.progressByStory
                /\ a.toolCountsByTask = b.toolCountsByTask
                /\ a.latestToolByTask = b.latestToolByTask

\* The feed ends every open stream with story_end or an error, and every
\* fallback request is answered or fails
StreamSettles ==
    \E id \in DOMAIN sources :
        \/ \E r \in BatchResults(sources[id].storyId) \cup {NullResult} : StreamStoryEnd(id, r)
        \/ StreamError(id)

FallbackSettles ==
    \E i \in DOMAIN fetches :
        \/ \E data \in BatchResults(fetches[i]) \cup {NoResultsBody} : FallbackResponse(i, data)
        \/ FallbackFailure(i)

FairSpec == Spec /\ WF_vars(StreamSettles) /\ WF_vars(FallbackSettles)

\* The log lines that end an attempt: "Story finished.", "Story done", "Error:"
TerminalLines == log["finished"] + log["done"] + log["error"]

AttemptDone ==
    /\ workingStoryTitle = ""
    /\ ~busy
    /\ OpenSources = {}
    /\ fetches = <<>>
    /\ TerminalLines = 1

\* C7: under FairSpec every attempt reaches a terminal state, with busy cleared,
\* no subscription open, no fallback in flight and exactly one of the ok and
\* error endings logged; no attempt logs two endings.
C7_AttemptTerminatesOnce ==
    /\ [](workingStoryTitle # "" => TerminalLines = 0)
    /\ [](attempts > 0 /\ ~runFetch /\ log["exec_run"] = 0 => TerminalLines <= 1)
    /\ (workingStoryTitle # "") ~> AttemptDone

\* C7 witness: an attempt whose stream dropped has ended with a failed fallback
C7_Witness == AttemptDone /\ log["sse_failed"] = 1 /\ log["error"] = 1

\* C8: after a fallback response with results, the story's progress record is
\* total = number of results, ok = number of results whose ok flag is true,
\* errors = number of results whose ok flag is false.
C8_FallbackCountsByOkFlag ==
    (log["done"] = 1 /\ lastResult.hasResults) =>
        progressByStory[attemptStory] = CountsByOkFlag(lastResult)

\* C9: after story_end with a result, sent by a feed that completed every task
\* of the story as the result reports it, the attempt is done, its subscription
\* is closed and the story's ledger shows the totals of the result.
C9_StoryEndAdoptsResult ==
    (/\ log["finished"] = 1
     /\ lastResult.hasResults
     /\ Len(lastResult.results) = Len(tasksByStory(attemptStory))
     /\ completes.ok = CountsByOkFlag(lastResult).ok
     /\ completes.errors = CountsByOkFlag(lastResult).errors)
    => /\ ~busy /\ ~streaming /\ OpenSources = {}
       /\ Ledger(attemptStory) = CountsByOkFlag(lastResult)

\* C10: every start of an attempt leaves the story's progress record at
\* {total = its task count, ok = 0, errors = 0} and the per-task diagnostics empty.
C10_AttemptStartResets ==
    [][attempts' # attempts =>
          /\ progressOrDefault(progressByStory', attemptStory') =
                 Progress(Len(tasksByStory(attemptStory')), 0, 0)
          /\ toolCountsByTask' = [t \in AllTasks |-> 0]
          /\ latestToolByTask' = [t \in AllTasks |-> ""]]_vars

\* A delivered task_complete leaves the records of the stories that are not
\* selected as they were
NoStaleLedgerWrite ==
    [][\A st \in Stories :
           (st # selectedStoryId /\ log'["task"] > log["task"]) =>
               progressByStory'[st] = progressByStory[st]]_vars

\* C11: when the selected story is switched while an attempt is streaming, the
\* open subscription is closed, and no task_complete frame delivered later
\* changes the progress record of a story that is not the selected one.
C11_CancelClosesSubscription ==
    /\ [][(streaming /\ selectedStoryId' # selectedStoryId) => OpenSources' = {}]_vars
    /\ NoStaleLedgerWrite

\* The story progress records and the per-task diagnostics
LedgerAndDiagnostics == <<progressByStory, toolCountsByTask, latestToolByTask>>

\* C12: from the moment the fallback request is in flight until it fails, the
\* ledger and the per-task diagnostics stay as they were, live increments
\* included; the failure ends the attempt with one "Error:" line, busy cleared.
C12_FallbackFailureKeepsState ==
    [][(fetches # <<>> /\ log'["done"] = log["done"]) =>
          /\ LedgerAndDiagnostics' = LedgerAndDiagnostics
          /\ Len(fetches') < Len(fetches) =>
                 /\ log'["error"] = 1
                 /\ ~busy'
                 /\ workingStoryTitle' = ""]_vars

\* C12 witness: a stream that delivered a tool start and a task completion
\* dropped, the fallback failed, and the live increments are still there
C12_Witness ==
    /\ log["sse_failed"] = 1 /\ log["error"] = 1 /\ ~busy /\ fetches = <<>>
    /\ completes.ok + completes.errors = 1
    /\ Ledger(attemptStory).ok + Ledger(attemptStory).errors >= 1
    /\ \E t \in AllTasks : toolCountsByTask[t] = 1

\* A response of fetch: res.ok, and the value res.json() resolves to
HttpResponse(ok, body) == [ok |-> ok, body |-> body]

\* const data = await res.json() (line 963): the body, whatever res.ok and res.status
jsonOf(res) == res.body

\* The state doPostFallback leaves when the i-th in-flight request is answered with res
afterResponse(i, res) ==
    doPostFallback([State EXCEPT !.fetches = RemoveAt(@, i)], fetches[i], jsonOf(res))

\* C13: a fallback response with an HTTP failure status ends the attempt in
\* error, and the story's progress record is not replaced from its body.
C13_HttpFailureIsTransportError ==
    \A i \in DOMAIN fetches :
        \A body \in BatchResults(fetches[i]) \cup {NoResultsBody} :
            LET s == afterResponse(i, HttpResponse(FALSE, body))
            IN  /\ s.log["error"] = 1
                /\ s.log["done"] = 0
                /\ s.progressByStory = progressByStory

\* C14: a fallback response whose JSON body has no results list ends the attempt
\* in error and does not overwrite the story's progress record with
\* {total: 0, ok: 0, errors: 0}.
C14_NoResultsIsDecodeError ==
    \A i \in DOMAIN fetches :
        \A ok \in BOOLEAN :
            LET s == afterResponse(i, HttpResponse(ok, NoResultsBody))
            IN  /\ s.log["error"] = 1
                /\ s.log["done"] = 0
                /\ \/ s.progressByStory[fetches[i]] = progressByStory[fetches[i]]
                   \/ s.progressByStory[fetches[i]] # Progress(0, 0, 0)

\* The frame that JSON.parse rejects
BadFrame == Frame("bad", "", "", FALSE, NullResult)

\* C15: a frame that fails to parse adds one "Bad event payload" line and
\* changes nothing else: the source stays open, busy and streaming stay set, the
\* ledger and the diagnostics are as before, no fallback request goes out, and
\* every frame of the feed has on the state after it the effect it would have
\* had before it.
C15_BadFrameOnlyLogs ==
    \A id \in OpenSources :
        LET s == onmessage(State, id, BadFrame)
        IN  /\ s = [State EXCEPT !.log["bad"] = @ + 1]
            /\ \A evt \in Frames(sources[id].storyId) \cup
                          {Frame("story_end", "", "", FALSE, r) :
                               r \in BatchResults(sources[id].storyId) \cup {NullResult}} :
                   onmessage(s, id, evt) =
                       [onmessage(State, id, evt) EXCEPT !.log["bad"] = @ + 1]

\* C15 witness: a bad frame and then a tool start were delivered, and the stream is open
C15_Witness ==
    /\ log["bad"] = 1 /\ log["tool"] = 1
    /\ streaming /\ busy /\ OpenSources # {} /\ fetches = <<>>
    /\ \E t \in AllTasks : toolCountsByTask[t] = 1

\* C16: an attempt logs its "Error:" ending only in the step that settles its
\* fallback request, and never together with "Story done"; a stream that fails
\* to open or drops logs no error and puts the fallback request in flight, with
\* busy still set.
C16_ErrorOnlyFromFallback ==
    /\ [](attempts > 0 /\ log["exec_run"] = 0 /\ log["error"] > 0 =>
              fallbackCalls = 1 /\ log["done"] = 0)
    /\ [][(log["exec_run"] = 0 /\ log'["exec_run"] = 0 /\ log'["error"] > log["error"]) =>
              Len(fetches') < Len(fetches)]_vars
    /\ [][(log'["sse_failed"] > log["sse_failed"]) =>
              /\ Len(fetches') = Len(fetches) + 1
              /\ busy'
              /\ log'["error"] = log["error"]]_vars
    /\ [][(attempts' # attempts /\ ~streaming') =>
              /\ Len(fetches') = Len(fetches) + 1
              /\ busy'
              /\ log'["error"] = 0]_vars

\* C16 witness: the stream dropped, the fallback answered, and no error was logged
C16_Witness ==
    /\ log["sse_failed"] = 1 /\ log["done"] = 1 /\ log["error"] = 0
    /\ fallbackCalls = 1 /\ ~busy /\ fetches = <<>>

\* The state after the frames of q, in order, were handled by the source id
RECURSIVE applyFrames(_, _, _)
applyFrames(s, id, q) ==
    IF q = <<>> THEN s ELSE applyFrames(onmessage(s, id, Head(q)), id, Tail(q))

\* Scenario A on the two tasks of story s1: both tasks start a tool, the first
\* completes ok and the second fails
ScenarioA ==
    << Frame("story_begin", "", "", FALSE, NullResult),
       Frame("on_tool_start", "t1", "grep", FALSE, NullResult),
       Frame("on_tool_end", "t1", "grep", FALSE, NullResult),
       Frame("task_complete", "t1", "", TRUE, NullResult),
       Frame("on_tool_start", "t2", "edit", FALSE, NullResult),
       Frame("task_complete", "t2", "", FALSE, NullResult),
       Frame("story_end", "", "", FALSE, NullResult) >>

C19_StreamErrorKeepsLiveState ==
    [][/\ (log'["sse_failed"] > log["sse_failed"]) =>
              /\ LedgerAndDiagnostics' = LedgerAndDiagnostics
              /\ OpenSources' = {}
              /\ ~streaming'
              /\ Len(fetches') = Len(fetches) + 1
       /\ (log["sse_failed"] = 1 /\ fetches # <<>> /\ fetches' = fetches) =>
              LedgerAndDiagnostics' = LedgerAndDiagnostics]_vars

\* C19 witness: the stream dropped after a tool start and a task completion;
\* the fallback request is in flight and both increments are still there
C19_Witness ==
    /\ log["sse_failed"] = 1 /\ Len(fetches) = 1 /\ busy /\ ~streaming
    /\ completes.ok + completes.errors = 1
    /\ Ledger(attemptStory).ok + Ledger(attemptStory).errors >= 1
    /\ \E t \in AllTasks : toolCountsByTask[t] = 1 /\ startsSeen[t] = 1

\* C20: an on_tool_end frame for a task with a tool name, handled by an open
\* source, sets the task's latest tool to that name and leaves the task's call
\* count as it was.
C20_ToolEndSetsLatestTool ==
    \A id \in OpenSources :
        \A evt \in Frames(sources[id].storyId) :
            (evt.event = "on_tool_end" /\ evt.task_id # "") =>
                LET s == onmessage(State, id, evt)
                IN  /\ s.latestToolByTask[evt.task_id] = evt.name
                    /\ s.toolCountsByTask[evt.task_id] = toolCountsByTask[evt.task_id]

\* The second half of C20 alone: an on_tool_end frame leaves every call count as it was
ToolEndKeepsCallCount ==
    \A id \in OpenSources :
        \A evt \in Frames(sources[id].storyId) :
            evt.event = "on_tool_end" =>
                onmessage(State, id, evt).toolCountsByTask = toolCountsByTask

\* What of the page tells that an attempt goes on: the flags, the banner's
\* title, the stored source, the sources and the requests in flight
AttemptStatus(s) ==
    <<s.busy, s.streaming, s.workingStoryTitle, s.es, s.sources, s.fetches, s.runFetch>>

\* C21: handled by an open source, on_tool_start and on_tool_end leave every
\* progress record as it was, task_complete leaves every tool count and latest
\* tool name as it was, story_begin and any other tag leave both as they were
\* and add one log line, and none of them changes busy, streaming, the source
\* or the requests in flight.
C21_FrameTouchesOwnComponent ==
    \A id \in OpenSources :
        \A evt \in Frames(sources[id].storyId) :
            LET s == onmessage(State, id, evt)
            IN  /\ AttemptStatus(s) = AttemptStatus(State)
                /\ s.lastResult = lastResult
                /\ evt.event \in {"on_tool_start", "on_tool_end"} =>
                       s.progressByStory = progressByStory
                /\ evt.event = "task_complete" =>
                       /\ s.toolCountsByTask = toolCountsByTask
                       /\ s.latestToolByTask = latestToolByTask
                /\ evt.event \in {"story_begin", "other"} =>
                       /\ s.progressByStory = progressByStory
                       /\ s.toolCountsByTask = toolCountsByTask
                       /\ s.latestToolByTask = latestToolByTask
                       /\ LogLen(s.log) = LogLen(log) + 1

\* C21 witness: a tool start and then a task completion were delivered and the
\* attempt is still streaming, with the count and the record both advanced
C21_Witness ==
    /\ streaming /\ busy /\ OpenSources # {}
    /\ log["tool"] = 1 /\ log["task"] = 1
    /\ \E t \in AllTasks : toolCountsByTask[t] = 1
    /\ completes.ok + completes.errors = 1

\* C22: a task's call count decreases only in the step that starts a new
\* attempt for the story of that task: never within an attempt, at story_end or
\* on a stream error, and never when an attempt starts for another story.
C22_CallCountResetOnlyForOwnStory ==
    [][\A t \in AllTasks :
           toolCountsByTask'[t] < toolCountsByTask[t] =>
               /\ attempts' # attempts
               /\ t \in SeqToSet(tasksByStory(attemptStory'))]_vars

\* Within an attempt, story_end and stream errors included, no call count decreases
CallCountMonotonicWithinAttempt ==
    [][attempts' = attempts =>
           \A t \in AllTasks : toolCountsByTask'[t] >= toolCountsByTask[t]]_vars

\* The condition of the "Working on:" banner (line 1074)
workingBanner(s) == s.busy \/ s.streaming

\* C23: the banner condition holds in every state in which an attempt has its
\* stream open or its fallback request in flight, the states between a stream
\* error and the fallback's conclusion included, and it is false once the
\* attempt is done and nothing else is in flight.
C23_BannerWhileAttemptRuns ==
    /\ (OpenSources # {} \/ fetches # <<>>) => workingBanner(State)
    /\ (attempts > 0 /\ OpenSources = {} /\ fetches = <<>> /\ ~runFetch) =>
           ~workingBanner(State)

\* C23 witness: between the stream's error and the fallback's answer the banner
\* is shown by busy alone
C23_Witness ==
    /\ workingBanner(State) /\ ~streaming /\ workingStoryTitle # ""
    /\ log["sse_failed"] = 1 /\ fetches # <<>>

\* C24: while a source is open, every step other than the delivery of story_end
\* or of a stream error leaves the attempt streaming: the same sources are open,
\* busy and streaming stay set, the Implement button stays disabled and no
\* fallback request goes out.
C24_NoInactivityTimeout ==
    [][(/\ OpenSources # {}
        /\ log'["finished"] = log["finished"]
        /\ log'["sse_failed"] = log["sse_failed"]) =>
          /\ OpenSources' = OpenSources
          /\ busy' /\ streaming'
          /\ implementDisabled(State')
          /\ fetches' = fetches]_vars

\* C24 witness: the stream is open, it has delivered frames up to the bound and
\* neither story_end nor an error; the attempt is still streaming
C24_Witness ==
    /\ OpenSources # {} /\ streaming /\ busy
    /\ frames = MaxFrames /\ LogLen(log) >= 3
    /\ log["finished"] = 0 /\ log["sse_failed"] = 0 /\ fetches = <<>>

\* C25: the step that handles story_end or a stream error leaves no source
\* open; while no source is open, no step other than a fallback response or the
\* start of an attempt changes the ledger or the diagnostics; and once a
\* fallback response has been applied, the story's record equals the counts of
\* that response until the next attempt starts.
C25_ClosedSourceIsSilent ==
    /\ [][(log'["finished"] > log["finished"] \/ log'["sse_failed"] > log["sse_failed"]) =>
              OpenSources' = {}]_vars
    /\ [][(OpenSources = {} /\ attempts' = attempts /\ Len(fetches') >= Len(fetches)) =>
              LedgerAndDiagnostics' = LedgerAndDiagnostics]_vars
    /\ [](log["done"] = 1 => progressByStory[attemptStory] = batchCounts(lastResult))

\* C25 witness: the stream completed a task and dropped, and the fallback's
\* result has replaced the record of the story
C25_Witness ==
    /\ log["sse_failed"] = 1 /\ log["done"] = 1 /\ lastResult.hasResults
    /\ completes.ok + completes.errors = 1
    /\ progressByStory[attemptStory] = batchCounts(lastResult)
    /\ OpenSources = {} /\ ~busy

\* C26: at most one source is open and at most one fallback request is in
\* flight, never both at once; a source is opened only in a step that starts
\* with no source open, and a fallback request goes out only in a step that
\* leaves no source open.
C26_StreamAndFallbackExclusive ==
    /\ [](/\ Cardinality(OpenSources) <= 1
          /\ Len(fetches) <= 1
          /\ ~(OpenSources # {} /\ fetches # <<>>))
    /\ [][(OpenSources' # {} /\ attempts' # attempts) => OpenSources = {}]_vars
    /\ [][Len(fetches') > Len(fetches) => OpenSources' = {}]_vars

\* C26 witness: the stream of the second attempt dropped; its source is closed
\* and its fallback request is the one thing in flight
C26_Witness ==
    /\ attempts = 2 /\ log["sse_failed"] = 1
    /\ Len(fetches) = 1 /\ es # 0 /\ OpenSources = {}

\* C27: once a fallback response has been applied, the record of its story
\* satisfies ok + errors = total, each result counting as an error when it
\* carries an error value and as ok otherwise.
C27_FallbackCountsPartition ==
    log["done"] = 1 =>
        /\ progressByStory[attemptStory].present
        /\ progressByStory[attemptStory].ok + progressByStory[attemptStory].errors =
               progressByStory[attemptStory].total
        /\ progressByStory[attemptStory].total = Len(lastResult.results)
        /\ progressByStory[attemptStory].errors =
               Cardinality({i \in DOMAIN lastResult.results : lastResult.results[i].error # ""})

\* C27 witness: a response of two results, one of them with an error value, was applied
C27_Witness ==
    /\ log["done"] = 1 /\ Len(lastResult.results) = 2
    /\ progressByStory[attemptStory] = Progress(2, 1, 1)

\* The number of events of the given kind recorded in the first entry of
\* lastResult for the task; 0 when there is no entry
RecordedEvents(task, kind) ==
    LET idx == {i \in DOMAIN lastResult.results : lastResult.results[i].task_id = task}
    IN  IF idx = {} THEN 0
        ELSE LET first == CHOOSE i \in idx : \A j \in idx : i <= j
                 evs == lastResult.results[first].events
             IN  Cardinality({k \in DOMAIN evs : evs[k].event = kind})

\* C28: in every state where streaming is false, the call count a task row
\* shows is max(number of on_tool_start, number of on_tool_end) over the events
\* of the task's entry in lastResult, and 0 when there is no entry, whatever the
\* live count; while streaming is true a task with live data shows at least its
\* live count.
C28_LiveOverridesOnlyWhileStreaming ==
    \A t \in AllTasks :
        /\ ~streaming =>
               taskRowDiag(State, t).totalToolCalls =
                   Max(RecordedEvents(t, "on_tool_start"), RecordedEvents(t, "on_tool_end"))
        /\ (streaming /\ toolCountsByTask[t] > 0) =>
               taskRowDiag(State, t).totalToolCalls =
                   Max(toolCountsByTask[t],
                       Max(RecordedEvents(t, "on_tool_start"), RecordedEvents(t, "on_tool_end")))

\* C28 witness: after story_end a task with a live count of one shows no call,
\* there being no recorded event for it
C28_Witness ==
    /\ ~streaming /\ log["finished"] = 1
    /\ \E t \in AllTasks :
           toolCountsByTask[t] = 1 /\ taskRowDiag(State, t).totalToolCalls = 0

\* An attempt on a story has its stream open or its fallback request in flight
StoryInFlight == OpenSources # {} \/ fetches # <<>>

\* C29: a story attempt and a whole-run request are never in flight together,
\* busy is set while either is, and so the step that clears busy leaves
\* nothing in flight.
C29_StoryAndRunExclusive ==
    /\ [](~(StoryInFlight /\ runFetch))
    /\ []((StoryInFlight \/ runFetch) => busy)
    /\ [][(busy /\ ~busy') => (OpenSources' = {} /\ fetches' = <<>> /\ ~runFetch')]_vars

\* C29 witness: a whole-run request is in flight after a story attempt has ended
C29_Witness ==
    /\ runFetch /\ busy /\ ~StoryInFlight
    /\ attempts >= 1 /\ log["exec_run"] = 1

\* C30: an on_tool_start frame without a task id, handled by an open source,
\* leaves the call counts and the latest tool names of all tasks as they were;
\* it adds its log line and nothing else.
C30_ToolStartWithoutTaskId ==
    \A id \in OpenSources :
        \A n \in Tools \cup {""} :
            LET s == onmessage(State, id, Frame("on_tool_start", "", n, FALSE, NullResult))
            IN  /\ s.toolCountsByTask = toolCountsByTask
                /\ s.latestToolByTask = latestToolByTask
                /\ s = [State EXCEPT !.log["tool"] = @ + 1]

\* C30 witness: two tool starts without a task id were delivered, and no task
\* has a call or a tool name
C30_Witness ==
    /\ streaming /\ log["tool"] = 2
    /\ \A t \in AllTasks : toolCountsByTask[t] = 0 /\ latestToolByTask[t] = "" /\ startsSeen[t] = 0

====
